---- MODULE Spec2Model ----
(***************************************************************************)
(* httpz: an instrumented HTTP client facade over the resty engine.        *)
(*                                                                         *)
(* The model follows one client built by NewClient and the calls that      *)
(* callers make on it with Do.  A call is a sequence of steps: Do resolves *)
(* the route and hands the request to the engine's Execute, which asks the *)
(* circuit breaker, runs the request middlewares in registration order     *)
(* (startTrace, logRequest, then the engine's own request preparation),    *)
(* performs the round trip, reports the response to the breaker, runs the  *)
(* response middlewares (the engine's response parsing, logResponse,       *)
(* endTraceSuccess), runs the error hook (endTraceError) when the attempt  *)
(* ended in an error, the panic hook (endTraceError) when a hook panicked, *)
(* and finally returns to Do.  Calls of different callers interleave; the  *)
(* breaker is the only state they share.                                   *)
(***************************************************************************)
EXTENDS Integers, Sequences, FiniteSets, TLC

\* Number of callers that use the client concurrently.
NumCalls == 2

\* Largest threshold passed to WithCircuitBreaker.
MaxThreshold == 2

\* Largest retry count set on the client with SetRetryCount.
MaxRetries == 2

\* Defaults of resty.NewCircuitBreaker, kept when WithCircuitBreaker gets zeros.
DefaultFailureThreshold == 3

DefaultSuccessThreshold == 1

Calls == 1..NumCalls

\* The path registry given to WithPaths (the README's example table).
paths == [getUser |-> "/users/{id}", createUser |-> "/users"]

\* Route names a caller may ask for: the registered ones and one that is not.
RouteNames == {"getUser", "missing"}

\* Status codes the test servers answer with.
Statuses == {200, 404, 500}

\* What a round trip can end in: a response (status, whether its body decodes
\* into the caller's result type) or a transport-level error.
Outcomes ==
    {[kind |-> "response", status |-> s, decodable |-> TRUE] : s \in Statuses}
    \cup {[kind |-> "response", status |-> 200, decodable |-> FALSE]}
    \cup {[kind |-> "transportError", status |-> 0, decodable |-> TRUE]}

VARIABLES
    opts,     \* the options passed to NewClient
    cb,       \* the circuit breaker object (state, counters, timers)
    calls,    \* per caller: the state of its current call
    client,   \* the Client: name, version, path registry, default headers
    req,      \* the request descriptor built with NewRequest(...).With...
    request,  \* the engine's request that Do made of the descriptor
    got,      \* what the last GetPath returned
    config    \* the config NewClient's options are applied to, one by one

\* The variables of request building, which the steps of a call leave alone.
builder == <<client, req, request, got, config>>

vars == <<opts, cb, calls, client, req, request, got, config>>

----------------------------------------------------------------------------
\* Configuration (config.go, NewClient)

\* Mutant: the two thresholds are stored in each other's place.
WithCircuitBreaker_Swapped(failureThreshold, successThreshold) ==
    [failureThreshold |->
        IF successThreshold > 0 THEN successThreshold ELSE DefaultFailureThreshold,
     successThreshold |->
        IF failureThreshold > 0 THEN failureThreshold ELSE DefaultSuccessThreshold]

\* WithCircuitBreaker: a zero argument keeps the breaker's default.
WithCircuitBreaker(failureThreshold, successThreshold) ==
    [failureThreshold |->
        IF failureThreshold > 0 THEN failureThreshold ELSE DefaultFailureThreshold,
     successThreshold |->
        IF successThreshold > 0 THEN successThreshold ELSE DefaultSuccessThreshold]

\* Mutant: the breaker is taken as attached whenever the enable flag is set.
BreakerAttached_IgnoreSupplied(o) == o.circuitBreakerEnabled

\* Mutant: the enable flag is not looked at.
BreakerAttached_IgnoreEnabled(o) == o.circuitBreakerSupplied

\* NewClient: the breaker is dropped unless WithCircuitBreakerEnabled(true).
BreakerAttached(o) ==
    IF ~o.circuitBreakerEnabled THEN FALSE ELSE o.circuitBreakerSupplied

\* The configuration the hooks close over.
cfg ==
    [logMWEnabled |-> opts.logMWEnabled,
     otelMWEnabled |-> opts.otelMWEnabled,
     circuitBreaker |-> BreakerAttached(opts),
     breaker |-> WithCircuitBreaker(opts.failureThreshold, opts.successThreshold)]

\* Option sets NewClient is called with.  The thresholds only exist when
\* WithCircuitBreaker is supplied; they are varied when the breaker is enabled,
\* and are the smallest ones when it is supplied but left disabled.
OptionSets ==
    {o \in [logMWEnabled : BOOLEAN, otelMWEnabled : BOOLEAN,
            circuitBreakerSupplied : BOOLEAN, circuitBreakerEnabled : BOOLEAN,
            failureThreshold : 0..MaxThreshold,
            successThreshold : 0..MaxThreshold,
            retryCount : {0}] :
        IF o.circuitBreakerSupplied /\ o.circuitBreakerEnabled
        THEN (o.failureThreshold = 0) = (o.successThreshold = 0)
        ELSE IF o.circuitBreakerSupplied
             THEN o.failureThreshold = 1 /\ o.successThreshold = 1
             ELSE o.failureThreshold = 0 /\ o.successThreshold = 0}

\* Clients on which SetRetryCount was called (TestDoRequestWithRetry) and
\* clients left with the default count of 0, with logging and tracing
\* enabled, without a breaker or with an enabled one.
RetryOptionSets ==
    {[o EXCEPT !.retryCount = k] :
        k \in {0, MaxRetries},
        o \in {p \in OptionSets :
                  /\ p.logMWEnabled /\ p.otelMWEnabled
                  /\ p.circuitBreakerSupplied = p.circuitBreakerEnabled
                  /\ p.circuitBreakerSupplied =>
                        p.failureThreshold = 2 /\ p.successThreshold = 1}}

----------------------------------------------------------------------------
\* The options of the circuit breaker, applied to the config one after the
\* other by NewClient's loop (config.go, NewClient).

\* Default timeout of resty.NewCircuitBreaker, in seconds.
DefaultTimeout == 10

\* Largest number of options passed to one NewClient.
MaxOptions == 2

\* Timeouts passed to WithCircuitBreaker, in seconds.
Timeouts == {0, 5}

\* Policies passed to WithCircuitBreaker: none, nil ones (the README passes
\* one nil), a policy of the caller, and a mix.
PolicyLists ==
    {<<>>, <<"nil">>, <<"nil", "nil">>, <<"custom">>, <<"nil", "custom">>}

IsPolicy(p) == p # "nil"

\* Mutant: the policies are set whenever some were passed, nil or not.
SetPolicies_KeepNil(policies) ==
    IF Len(policies) > 0 THEN policies ELSE <<"CircuitBreaker5xxPolicy">>

\* The nil policies are dropped; what is left replaces the default policy,
\* which stays when nothing is left.
SetPolicies(policies) ==
    IF Len(SelectSeq(policies, IsPolicy)) > 0
    THEN SelectSeq(policies, IsPolicy)
    ELSE <<"CircuitBreaker5xxPolicy">>

\* The breaker WithCircuitBreaker puts into the config: a new breaker with
\* the engine's defaults, on which the arguments that are not zero are set.
WithCircuitBreakerOption(timeout, failureThreshold, successThreshold, policies) ==
    [timeout |-> IF timeout > 0 THEN timeout ELSE DefaultTimeout,
     failureThreshold |->
        WithCircuitBreaker(failureThreshold, successThreshold).failureThreshold,
     successThreshold |->
        WithCircuitBreaker(failureThreshold, successThreshold).successThreshold,
     policies |-> SetPolicies(policies)]

NoBreaker ==
    [timeout |-> 0, failureThreshold |-> 0, successThreshold |-> 0,
     policies |-> <<>>]

NoArgs ==
    [timeout |-> 0, failureThreshold |-> 0, successThreshold |-> 0,
     policies |-> <<>>]

\* config{} before any option: no breaker, the enable flag false.  args are
\* the arguments of the last WithCircuitBreaker, applied the options in their
\* order, built whether NewClient has made the client, attached whether the
\* client got a breaker, breaker the breaker it got.
NoConfig ==
    [circuitBreaker |-> NoBreaker, supplied |-> FALSE,
     circuitBreakerEnabled |-> FALSE, enabledSet |-> FALSE,
     args |-> NoArgs, applied |-> <<>>,
     built |-> FALSE, attached |-> FALSE, breaker |-> NoBreaker]

----------------------------------------------------------------------------
\* Request building: NewClient's client fields, NewRequest and the With...
\* setters, the first half of Do, and what the engine's request preparation
\* makes of the request before it is sent.
\*
\* A text is a sequence of tokens and the empty string the empty sequence; a
\* header map or a parameter map is a function from names to texts, with one
\* value per name; a nil map and an empty map are the same function.

NoHeader == [h \in {} |-> <<>>]

NoParams == [h \in {} |-> <<>>]

\* http.Header.Get: the value, or "" when the name is absent.
Get(header, name) == IF name \in DOMAIN header THEN header[name] ELSE <<>>

\* http.Header.Set: the value replaces what the name had.
Set(header, name, value) ==
    [h \in DOMAIN header \cup {name} |-> IF h = name THEN value ELSE header[h]]

\* The arguments of NewClient in the tests and the README.
clientName == <<"test-client">>

baseURL == <<"http://server">>

\* WithServiceVersion: not called (""), or called with a version.
Versions == {<<>>, <<"1.2.0">>}

\* WithBaseHeaders: not called, headers no call sets apart from X-Tenant,
\* and a client-wide Content-Type.
BaseHeaderSets ==
    {NoHeader,
     ("X-Tenant" :> <<"base">>) @@ ("X-Trace" :> <<"on">>),
     ("X-Tenant" :> <<"base">>) @@ ("Content-Type" :> <<"text/xml">>)}

\* WithPaths: the README's table, or a registry with one route.
PathSets == {paths, [getUser |-> "/users/{id}"]}

\* NewClient: the fields of the Client and the default headers of the engine
\* client.  The registry is the caller's map, taken as it is.
NewClient(version, registry, baseHeaders) ==
    [name |-> clientName, version |-> version, paths |-> registry,
     baseHeaders |-> baseHeaders]

\* What the callers of a request pass to the With... setters.
PathNames == {"getUser", "createUser", "missing"}

PathParamSets == {NoParams, "id" :> <<"1">>, "id" :> <<"a b">>}

QueryParamSets == {NoParams, "foo" :> <<"bar">>}

\* WithHeader: not called, a header of the call only together with one the
\* client also has, an own Content-Type, an own User-Agent, and two calls that
\* differ in the credential they carry in Authorization.
CallHeaderSets ==
    {NoHeader,
     ("X-Tenant" :> <<"call">>) @@ ("X-Call" :> <<"1">>),
     "Content-Type" :> <<"text/plain">>,
     "User-Agent" :> <<"curl">>,
     "Authorization" :> <<"Bearer", "secret-1">>,
     "Authorization" :> <<"Bearer", "secret-2">>}

\* basicAuth is a pointer: nil until WithBasicAuth is called.
NoAuth == [set |-> FALSE, user |-> <<>>, pass |-> <<>>]

BasicAuths == {NoAuth, [set |-> TRUE, user |-> <<"testuser">>, pass |-> <<"testpass">>]}

\* NewRequest(pathName, method) followed by the With... setters.
NewRequest(pathName, pathParams, queryParams, header, basicAuth) ==
    [pathName |-> pathName, pathParams |-> pathParams,
     queryParams |-> queryParams, header |-> header, basicAuth |-> basicAuth,
     authScheme |-> <<>>, authToken |-> <<>>]

\* WithAuthScheme(scheme).WithAuthToken(token) on a descriptor.
WithAuth(r, scheme, token) ==
    [r EXCEPT !.authScheme = scheme, !.authToken = token]

\* fmt.Sprintf("%s/%s", client.name, client.version)
UserAgent(cl) == cl.name \o <<"/">> \o cl.version

\* Mutant: the User-Agent is added to the value the map has (Header.Add in
\* place of Header.Set).
SetDefaultHeaders_Add(cl, header) ==
    Set(IF Get(header, "Content-Type") = <<>>
        THEN Set(header, "Content-Type", <<"application/json">>)
        ELSE header,
        "User-Agent", Get(header, "User-Agent") \o UserAgent(cl))

\* Do's own headers, written into the header map of the descriptor: the
\* Content-Type when the map has none, the User-Agent always.
SetDefaultHeaders(cl, header) ==
    Set(IF Get(header, "Content-Type") = <<>>
        THEN Set(header, "Content-Type", <<"application/json">>)
        ELSE header,
        "User-Agent", UserAgent(cl))

\* The segments of a route template; {name} is a placeholder.
Lit(t) == [kind |-> "lit", text |-> <<t>>]

Param(n) == [kind |-> "param", text |-> <<n>>]

Segments(template) ==
    CASE template = "/users/{id}" -> <<Lit("users"), Param("id")>>
      [] template = "/users" -> <<Lit("users")>>
      [] OTHER -> <<>>

\* url.PathEscape and url.QueryEscape on the values of the model.
PathEscape(v) == IF v = <<"a b">> THEN <<"a%20b">> ELSE v

QueryEscape(v) == IF v = <<"a b">> THEN <<"a+b">> ELSE v

\* Mutant: the query parameters are not attached.
parseRequestURL_NoQuery(template, pathParams, queryParams) ==
    [base |-> baseURL,
     path |-> [i \in 1..Len(Segments(template)) |->
                 LET seg == Segments(template)[i] IN
                 IF seg.kind = "param" /\ seg.text[1] \in DOMAIN pathParams
                 THEN [kind |-> "lit", text |-> PathEscape(pathParams[seg.text[1]])]
                 ELSE seg],
     query |-> NoParams]

\* The engine's URL: the base URL, the template with each placeholder that has
\* a path parameter replaced by the escaped value, and the query parameters.
parseRequestURL(template, pathParams, queryParams) ==
    [base |-> baseURL,
     path |-> [i \in 1..Len(Segments(template)) |->
                 LET seg == Segments(template)[i] IN
                 IF seg.kind = "param" /\ seg.text[1] \in DOMAIN pathParams
                 THEN [kind |-> "lit", text |-> PathEscape(pathParams[seg.text[1]])]
                 ELSE seg],
     query |-> [q \in DOMAIN queryParams |-> QueryEscape(queryParams[q])]]

\* Mutant: a default header of the client replaces the header of the call.
parseRequestHeader_ClientWins(clientHeader, header) ==
    [h \in DOMAIN clientHeader \cup DOMAIN header |->
        IF h \in DOMAIN clientHeader THEN clientHeader[h] ELSE header[h]]

\* The engine's header merge: the client's default headers are added for the
\* names the request does not have.
parseRequestHeader(clientHeader, header) ==
    [h \in DOMAIN clientHeader \cup DOMAIN header |->
        IF h \in DOMAIN header THEN header[h] ELSE clientHeader[h]]

\* request.SetBasicAuth, called only when the descriptor has credentials: the
\* engine writes the Authorization header from them.
addCredentials(header, basicAuth) ==
    IF basicAuth.set
    THEN Set(header, "Authorization",
             <<"Basic", "base64">> \o basicAuth.user \o <<":">> \o basicAuth.pass)
    ELSE header

\* The engine's token header, written when the request has a token: the
\* scheme and the token.
addToken(header, authScheme, authToken) ==
    IF authToken # <<>>
    THEN Set(header, "Authorization", authScheme \o authToken)
    ELSE header

\* Mutant: the credentials are written after the token header.
addAuthorization_BasicLast(header, r) ==
    addCredentials(addToken(header, r.authScheme, r.authToken), r.basicAuth)

\* The engine's credential step: the basic credentials first, the token
\* header after them, whatever the order of the setters on the request.
addAuthorization(header, r) ==
    addToken(addCredentials(header, r.basicAuth), r.authScheme, r.authToken)

NoURL == [base |-> <<>>, path |-> <<>>, query |-> NoParams]

NoRequest ==
    [state |-> "none", url |-> NoURL, header |-> NoHeader,
     logged |-> [emitted |-> FALSE, header |-> NoHeader]]

\* logRequest's record: the header map of the request as it is.
LogRequestRecord(header) ==
    IF cfg.logMWEnabled THEN [emitted |-> TRUE, header |-> header]
    ELSE [emitted |-> FALSE, header |-> NoHeader]

\* The request that leaves Do for the descriptor r, whose header map already
\* holds Do's own headers: logRequest sees the request's headers before the
\* engine merges the client's into them and adds the credentials.
SentRequest(cl, r) ==
    [state |-> "built",
     url |-> parseRequestURL(cl.paths[r.pathName], r.pathParams, r.queryParams),
     header |-> addAuthorization(parseRequestHeader(cl.baseHeaders, r.header),
                                 r),
     logged |-> LogRequestRecord(r.header)]

----------------------------------------------------------------------------
\* The circuit breaker the engine consults (resty.CircuitBreaker, configured
\* by WithCircuitBreaker).  timeout is not a number here: the passing of the
\* timeout is the two actions WindowElapses and BreakerTimeout below.

\* The default policy: "Status Code 500 and above" is a failure.
CircuitBreaker5xxPolicy(status) == status > 499

NewCircuitBreaker ==
    [state |-> "Closed", failureCount |-> 0, successCount |-> 0,
     windowExpired |-> FALSE, timers |-> 0]

\* changeState: every transition resets both counters.
changeState(b, s) ==
    [b EXCEPT !.state = s, !.failureCount = 0, !.successCount = 0,
              !.windowExpired = FALSE]

\* open: go to Open and start the timer that ends in Half-Open.
open(b) ==
    [changeState(b, "Open") EXCEPT !.timers = @ + 1]

\* allow: only the Open state rejects.
allow(b) ==
    IF cfg.circuitBreaker /\ b.state = "Open" THEN "BreakerOpen" ELSE "none"

\* applyPolicies: the feedback of one response.  Failures count while Closed,
\* and only those "within the timeout duration" of the previous one; a failure
\* while Half-Open re-opens; successes count while Half-Open.
applyPolicies(b, status) ==
    IF CircuitBreaker5xxPolicy(status)
    THEN LET fresh == IF b.failureCount > 0 /\ b.windowExpired
                      THEN [b EXCEPT !.failureCount = 0, !.windowExpired = FALSE]
                      ELSE b
         IN  CASE fresh.state = "Closed" ->
                    IF fresh.failureCount + 1 >= cfg.breaker.failureThreshold
                    THEN open(fresh)
                    ELSE [fresh EXCEPT !.failureCount = @ + 1,
                                       !.windowExpired = FALSE]
               [] fresh.state = "HalfOpen" -> open(fresh)
               [] OTHER -> fresh
    ELSE CASE b.state = "HalfOpen" ->
                IF b.successCount + 1 >= cfg.breaker.successThreshold
                THEN changeState(b, "Closed")
                ELSE [b EXCEPT !.successCount = @ + 1]
           [] OTHER -> b

----------------------------------------------------------------------------
\* One call.

NoSpan ==
    [started |-> 0, ended |-> 0, status |-> "unset", description |-> "",
     errors |-> 0]

\* A span's parent span and trace; a span started on a context without a
\* span is the root of a new trace.
NoLink == [parent |-> "none", trace |-> "none"]

TraceOf(span) == IF span = "none" THEN "new" ELSE "caller"

NoResult == [kind |-> "none", status |-> 0, err |-> "none", key |-> "none"]

IdleCall ==
    [pc |-> "idle",
     pathName |-> "none",    \* the route name asked for
     bodyOk |-> TRUE,        \* the request body can be marshalled to JSON
     hasParent |-> FALSE,    \* the caller's context carries a valid span
     basicAuth |-> FALSE,    \* the descriptor carries basic-auth credentials
     attempt |-> 0,          \* the attempt Execute is at (Request.Attempt)
     ctxSpan |-> "none",     \* the span in the request's context
     rawRequest |-> FALSE,   \* the engine has built the http.Request
     sent |-> FALSE,         \* the request was handed to the transport
     status |-> 0,           \* status of the response, 0 when there is none
     decodable |-> TRUE,     \* the response body decodes into the result type
     err |-> "none",         \* the error Execute is about to return
     child |-> NoSpan,       \* the span startTrace started for this call
     parent |-> NoSpan,      \* what this call did to the caller's span
     injected |-> FALSE,     \* trace context was injected into the headers
     childLink |-> NoLink,   \* the parent span and the trace of the child span
     carrier |-> "none",     \* the span the injected trace context identifies
     logs |-> <<>>,          \* the records the logging hooks emitted
     stages |-> <<>>,        \* the pipeline stages in the order they ran
     panicked |-> FALSE,     \* a hook panicked during this call
     breakerEffect |-> "none", \* what this call's report did to the breaker
     ret |-> NoResult]       \* what Do returned

\* The hooks in the order NewClient registers them.  The engine inserts added
\* request middlewares before its own request preparation, and appends added
\* response middlewares after its own response parsing.
\* Mutant: the two request hooks are registered the other way round.
RequestMiddlewares_Swapped == <<"logRequest", "startTrace", "prepareRequest">>

RequestMiddlewares == <<"startTrace", "logRequest", "prepareRequest">>

ResponseMiddlewares == <<"parseResponse", "logResponse", "endTraceSuccess">>

IndexOf(chain, s) == CHOOSE i \in 1..Len(chain) : chain[i] = s

\* The stage after s in chain, or last when s closes the chain.
After(chain, s, last) ==
    IF IndexOf(chain, s) < Len(chain) THEN chain[IndexOf(chain, s) + 1] ELSE last

Ran(k, stage) == [k EXCEPT !.stages = Append(@, stage)]

\* Operations on trace.SpanFromContext(req.Context()): the call's own span, the
\* caller's span, or the no-op span when the context carries none.
SpanEnd(k) ==
    CASE k.ctxSpan = "child" -> [k EXCEPT !.child.ended = @ + 1]
      [] k.ctxSpan = "parent" -> [k EXCEPT !.parent.ended = @ + 1]
      [] OTHER -> k

\* Mutant: the description is kept whatever the code.
StatusDescription_Always(code, description) == description

\* Span.SetStatus keeps the description only with the code Error.
StatusDescription(code, description) ==
    IF code = "error" THEN description ELSE ""

SpanSetStatus(k, code, description) ==
    CASE k.ctxSpan = "child" ->
            [k EXCEPT !.child.status = code,
                      !.child.description = StatusDescription(code, description)]
      [] k.ctxSpan = "parent" ->
            [k EXCEPT !.parent.status = code,
                      !.parent.description = StatusDescription(code, description)]
      [] OTHER -> k

\* Response.Status(), the status line of the response ("404 Not Found").
StatusLine(k) == "status line"

SpanRecordError(k) ==
    CASE k.ctxSpan = "child" -> [k EXCEPT !.child.errors = @ + 1]
      [] k.ctxSpan = "parent" -> [k EXCEPT !.parent.errors = @ + 1]
      [] OTHER -> k

\* Response.IsError: status code above 399.
IsError(status) == status > 399

\* Response.IsSuccess: status code 200..299.
IsSuccess(status) == status > 199 /\ status < 300

----------------------------------------------------------------------------
\* The hooks (otel_mw.go, log_mw.go), as functions of the call's state.

\* Mutant: the validity of the parent span context is not checked, so a root
\* span is started when the caller's context carries none.
startTrace_NoParentCheck(k) ==
    IF ~cfg.otelMWEnabled THEN k
    ELSE [k EXCEPT !.child.started = @ + 1, !.ctxSpan = "child",
                   !.childLink = [parent |-> k.ctxSpan,
                                  trace |-> TraceOf(k.ctxSpan)],
                   !.carrier = "child",
                   !.injected = TRUE]

\* Mutant: the trace context is injected from the request's context before
\* the new span is put into it.
startTrace_InjectParent(k) ==
    IF ~cfg.otelMWEnabled THEN k
    ELSE IF k.ctxSpan = "none" THEN k
    ELSE [k EXCEPT !.child.started = @ + 1, !.ctxSpan = "child",
                   !.childLink = [parent |-> k.ctxSpan,
                                  trace |-> TraceOf(k.ctxSpan)],
                   !.carrier = k.ctxSpan,
                   !.injected = TRUE]

\* tracer.Start on the request's context makes the new span a child of the
\* span found there; Inject and SetContext get the context with the new span.
startTrace(k) ==
    IF ~cfg.otelMWEnabled THEN k
    ELSE IF k.ctxSpan = "none" THEN k
    ELSE [k EXCEPT !.child.started = @ + 1, !.ctxSpan = "child",
                   !.childLink = [parent |-> k.ctxSpan,
                                  trace |-> TraceOf(k.ctxSpan)],
                   !.carrier = "child",
                   !.injected = TRUE]

logRequest(k) ==
    IF ~cfg.logMWEnabled THEN k
    ELSE IF ~k.bodyOk
         THEN [k EXCEPT !.logs = Append(@, [hook |-> "request", level |-> "error"]),
                        !.err = "Marshal"]
         ELSE [k EXCEPT !.logs = Append(@, [hook |-> "request", level |-> "info"])]

logResponse(k) ==
    IF ~cfg.logMWEnabled THEN k
    ELSE [k EXCEPT !.logs = Append(@,
            [hook |-> "response",
             level |-> IF IsError(k.status) THEN "error" ELSE "info"])]

\* Mutant: the success hook sets the status and forgets span.End().
endTraceSuccess_NoEnd(k) ==
    IF ~cfg.otelMWEnabled THEN k
    ELSE SpanSetStatus(k, IF IsError(k.status) THEN "error" ELSE "ok",
                       StatusLine(k))

endTraceSuccess(k) ==
    IF ~cfg.otelMWEnabled THEN k
    ELSE SpanEnd(SpanSetStatus(k, IF IsError(k.status) THEN "error" ELSE "ok",
                       StatusLine(k)))

\* Mutant: the error hook sets the status and forgets span.End().
endTraceError_NoEnd(k) ==
    IF ~cfg.otelMWEnabled THEN k
    ELSE IF ~k.rawRequest THEN [k EXCEPT !.panicked = TRUE]
    ELSE SpanSetStatus(SpanRecordError(k), "error", k.err)

\* httpconv.ClientRequest(req.RawRequest) dereferences the raw request: with
\* none built yet the hook panics, and the deferred span.End() still runs.
endTraceError(k) ==
    IF ~cfg.otelMWEnabled THEN k
    ELSE IF ~k.rawRequest THEN [SpanEnd(k) EXCEPT !.panicked = TRUE]
    ELSE SpanEnd(SpanSetStatus(SpanRecordError(k), "error", k.err))

\* The engine's own middlewares.
prepareRequest(k) ==
    IF ~k.bodyOk THEN [k EXCEPT !.err = "Encode"]
    ELSE [k EXCEPT !.rawRequest = TRUE]

parseResponse(k) ==
    IF IsSuccess(k.status) /\ ~k.decodable THEN [k EXCEPT !.err = "Decode"]
    ELSE k

----------------------------------------------------------------------------
\* Do (httpz.go)

\* Mutant: the lookup result is not checked.
PathFound_AnyName(name) == TRUE

\* path, ok := client.paths[req.pathName]
PathFound(name) == name \in DOMAIN client.paths

\* The start of Do: an unknown route name ends the call at once; otherwise
\* the request is built on the caller's context and handed to Execute.
DoCall(name, bodyOk, hasParent) ==
    IF ~PathFound(name)
    THEN [IdleCall EXCEPT !.pc = "done", !.pathName = name,
            !.ret = [kind |-> "error", status |-> 0,
                     err |-> "RouteNotFound", key |-> name]]
    ELSE [IdleCall EXCEPT !.pc = "allow", !.pathName = name, !.attempt = 1,
            !.bodyOk = bodyOk, !.hasParent = hasParent,
            !.basicAuth = req.basicAuth.set,
            !.ctxSpan = IF hasParent THEN "parent" ELSE "none"]

\* Mutant: a response with an error status is turned into an error.
DoResult_ErrorOnStatus(k) ==
    IF k.err # "none" \/ IsError(k.status)
    THEN [kind |-> "error", status |-> 0,
          err |-> IF k.err # "none" THEN k.err ELSE "Status", key |-> "none"]
    ELSE [kind |-> "ok", status |-> k.status, err |-> "none", key |-> "none"]

\* Mutant: the error of Execute is replaced by a fresh error that does not
\* wrap it (the verb %v in place of %w).
DoResult_SwallowCause(k) ==
    IF k.err # "none"
    THEN [kind |-> "error", status |-> 0, err |-> "Execute", key |-> "none"]
    ELSE [kind |-> "ok", status |-> k.status, err |-> "none", key |-> "none"]

\* The end of Do: an error of Execute is wrapped and returned with a nil
\* response; otherwise the envelope carries the response, whatever its status.
DoResult(k) ==
    IF k.err # "none"
    THEN [kind |-> "error", status |-> 0, err |-> k.err, key |-> "none"]
    ELSE [kind |-> "ok", status |-> k.status, err |-> "none", key |-> "none"]

----------------------------------------------------------------------------
\* The steps of a call.

RequestNext(k, s) ==
    [k EXCEPT !.pc = IF k.err # "none" THEN "onError"
                     ELSE After(RequestMiddlewares, s, "roundTrip")]

\* The engine's default retry condition on a response: a 5xx status (the 503
\* of TestDoRequestWithRetry), while retries are left.
\* Mutant: a response is retried whatever its status.
NeedsRetry_AnyStatus(k) ==
    k.err = "none" /\ k.attempt <= opts.retryCount

NeedsRetry(k) ==
    k.err = "none" /\ k.status > 499 /\ k.attempt <= opts.retryCount

\* After the last response middleware the attempt is over: Execute runs the
\* whole attempt again when a retry is due.
ResponseNext(k, s) ==
    IF IndexOf(ResponseMiddlewares, s) = Len(ResponseMiddlewares) /\ NeedsRetry(k)
    THEN [k EXCEPT !.pc = "allow", !.attempt = @ + 1]
    ELSE [k EXCEPT !.pc = After(ResponseMiddlewares, s,
                            IF k.err # "none" THEN "onError" ELSE "return")]

Do(c, name, bodyOk, hasParent) ==
    /\ calls[c].pc \in {"idle", "done"}
    /\ calls' = [calls EXCEPT ![c] = DoCall(name, bodyOk, hasParent)]
    /\ UNCHANGED <<opts, cb, builder>>

\* Execute asks the breaker first; a rejection is an error of the attempt.
BreakerAllow(c) ==
    /\ calls[c].pc = "allow"
    /\ calls' = [calls EXCEPT ![c] =
         IF ~cfg.circuitBreaker
         THEN [@ EXCEPT !.pc = RequestMiddlewares[1]]
         ELSE IF allow(cb) # "none"
              THEN [Ran(@, "allow") EXCEPT !.err = allow(cb), !.pc = "onError"]
              ELSE [Ran(@, "allow") EXCEPT !.pc = RequestMiddlewares[1]]]
    /\ UNCHANGED <<opts, cb, builder>>

StartTrace(c) ==
    /\ calls[c].pc = "startTrace"
    /\ calls' = [calls EXCEPT ![c] =
         RequestNext(startTrace(Ran(@, "startTrace")), "startTrace")]
    /\ UNCHANGED <<opts, cb, builder>>

LogRequest(c) ==
    /\ calls[c].pc = "logRequest"
    /\ calls' = [calls EXCEPT ![c] =
         RequestNext(logRequest(Ran(@, "logRequest")), "logRequest")]
    /\ UNCHANGED <<opts, cb, builder>>

PrepareRequest(c) ==
    /\ calls[c].pc = "prepareRequest"
    /\ calls' = [calls EXCEPT ![c] =
         RequestNext(prepareRequest(Ran(@, "prepareRequest")), "prepareRequest")]
    /\ UNCHANGED <<opts, cb, builder>>

\* The transport call: it ends in a response or in a transport error.
RoundTrip(c, o) ==
    /\ calls[c].pc = "roundTrip"
    /\ calls' = [calls EXCEPT ![c] =
         IF o.kind = "transportError"
         THEN [Ran(@, "roundTrip") EXCEPT !.sent = TRUE, !.err = "Transport",
                   !.pc = "onError"]
         ELSE [Ran(@, "roundTrip") EXCEPT !.sent = TRUE, !.status = o.status,
                   !.decodable = o.decodable, !.pc = "applyPolicies"]]
    /\ UNCHANGED <<opts, cb, builder>>

\* The engine reports a received response to the breaker.
BreakerReport(c) ==
    /\ calls[c].pc = "applyPolicies"
    /\ IF cfg.circuitBreaker
       THEN /\ cb' = applyPolicies(cb, calls[c].status)
            /\ calls' = [calls EXCEPT ![c] =
                 [Ran(@, "applyPolicies") EXCEPT !.pc = ResponseMiddlewares[1],
                    !.breakerEffect =
                        IF cb'.state = cb.state THEN "none"
                        ELSE IF cb'.state = "Open" THEN "opened" ELSE "closed"]]
       ELSE /\ cb' = cb
            /\ calls' = [calls EXCEPT ![c] =
                 [@ EXCEPT !.pc = ResponseMiddlewares[1]]]
    /\ UNCHANGED <<opts, builder>>

ParseResponse(c) ==
    /\ calls[c].pc = "parseResponse"
    /\ calls' = [calls EXCEPT ![c] =
         ResponseNext(parseResponse(Ran(@, "parseResponse")), "parseResponse")]
    /\ UNCHANGED <<opts, cb, builder>>

LogResponse(c) ==
    /\ calls[c].pc = "logResponse"
    /\ calls' = [calls EXCEPT ![c] =
         ResponseNext(logResponse(Ran(@, "logResponse")), "logResponse")]
    /\ UNCHANGED <<opts, cb, builder>>

EndTraceSuccess(c) ==
    /\ calls[c].pc = "endTraceSuccess"
    /\ calls' = [calls EXCEPT ![c] =
         ResponseNext(endTraceSuccess(Ran(@, "endTraceSuccess")), "endTraceSuccess")]
    /\ UNCHANGED <<opts, cb, builder>>

\* OnError(endTraceError): runs when the attempt ended in an error.
OnError(c) ==
    /\ calls[c].pc = "onError"
    /\ calls' = [calls EXCEPT ![c] =
         LET k == endTraceError(Ran(@, "endTraceError"))
         IN  [k EXCEPT !.pc = IF k.panicked THEN "onPanic" ELSE "return"]]
    /\ UNCHANGED <<opts, cb, builder>>

\* OnPanic(endTraceError): runs when Execute recovers a panic, which it then
\* raises again, so Do does not return.
OnPanic(c) ==
    /\ calls[c].pc = "onPanic"
    /\ calls' = [calls EXCEPT ![c] =
         [endTraceError(Ran(@, "endTraceError")) EXCEPT !.pc = "done",
            !.ret = [kind |-> "panic", status |-> 0, err |-> "none",
                     key |-> "none"]]]
    /\ UNCHANGED <<opts, cb, builder>>

DoReturn(c) ==
    /\ calls[c].pc = "return"
    /\ calls' = [calls EXCEPT ![c] =
         [calls[c] EXCEPT !.pc = "done", !.ret = DoResult(calls[c])]]
    /\ UNCHANGED <<opts, cb, builder>>

\* More than the timeout has passed since the last counted failure.
WindowElapses ==
    /\ cfg.circuitBreaker
    /\ cb.failureCount > 0
    /\ ~cb.windowExpired
    /\ cb' = [cb EXCEPT !.windowExpired = TRUE]
    /\ UNCHANGED <<opts, calls, builder>>

\* The timer started by open fires: Half-Open.
BreakerTimeout ==
    /\ cb.timers > 0
    /\ cb' = [changeState(cb, "HalfOpen") EXCEPT !.timers = @ - 1]
    /\ UNCHANGED <<opts, calls, builder>>

----------------------------------------------------------------------------

\* A caller builds a request descriptor.
BuildRequest(pathName, pathParams, queryParams, header, basicAuth) ==
    /\ req' = NewRequest(pathName, pathParams, queryParams, header, basicAuth)
    /\ request' = NoRequest
    /\ UNCHANGED <<config, opts, cb, calls, client, got>>

\* A caller gives the descriptor a scheme and a token.
SetAuthToken ==
    /\ request.state = "none"
    /\ req.authToken = <<>>
    /\ req' = WithAuth(req, <<"Bearer">>, <<"token">>)
    /\ UNCHANGED <<config, opts, cb, calls, client, request, got>>

\* Do on the descriptor, up to the request that is sent: the route lookup,
\* Do's own headers written into the descriptor, the engine's request.
DoRequest ==
    /\ request.state = "none"
    /\ IF ~PathFound(req.pathName)
       THEN /\ request' = [NoRequest EXCEPT !.state = "notFound"]
            /\ req' = req
       ELSE /\ req' = [req EXCEPT !.header = SetDefaultHeaders(client, @)]
            /\ request' = SentRequest(client, req')
    /\ UNCHANGED <<config, opts, cb, calls, client, got>>

\* Mutant: a name that is not registered is added to the registry.
GetPath_Registers(pathName) ==
    /\ got' = IF pathName \in DOMAIN client.paths
              THEN client.paths[pathName] ELSE ""
    /\ client' = [client EXCEPT !.paths =
                    [n \in DOMAIN @ \cup {pathName} |->
                        IF n \in DOMAIN @ THEN @[n] ELSE ""]]
    /\ UNCHANGED <<config, opts, cb, calls, req, request>>

\* Client.GetPath: the template of the name, "" when it is not registered.
GetPath(pathName) ==
    /\ got' = IF pathName \in DOMAIN client.paths
              THEN client.paths[pathName] ELSE ""
    /\ UNCHANGED <<config, opts, cb, calls, client, req, request>>

\* The test server: a mux with one handler per route template, which
\* answers 200; the mux answers 404 to every path that has no handler.
Handles(pattern, path) ==
    /\ Len(pattern) = Len(path)
    /\ Len(pattern) > 0
    /\ \A i \in DOMAIN pattern :
          pattern[i].kind = "lit" => path[i] = pattern[i]

Serve(cl, url) ==
    IF \E n \in DOMAIN cl.paths : Handles(Segments(cl.paths[n]), url.path)
    THEN 200 ELSE 404

\* Mutant: a name that is not registered is an error, as it is in Do.
GetByPath_NotFound(pathName) ==
    /\ got' = IF pathName \in DOMAIN client.paths
              THEN client.paths[pathName] ELSE ""
    /\ request' =
          [state |-> "answered", asked |-> pathName, path |-> got',
           url |-> parseRequestURL(got', NoParams, NoParams),
           header |-> parseRequestHeader(client.baseHeaders,
                                         SetDefaultHeaders(client, NoHeader)),
           logged |-> LogRequestRecord(SetDefaultHeaders(client, NoHeader)),
           err |-> IF pathName \in DOMAIN client.paths
                   THEN <<>> ELSE <<"path not found">>,
           status |-> IF pathName \in DOMAIN client.paths
                      THEN Serve(client, parseRequestURL(got', NoParams, NoParams))
                      ELSE 0]
    /\ UNCHANGED <<config, opts, cb, calls, client, req>>

\* client.NewRequest(ctx).Get(client.GetPath(pathName)): a request of the
\* engine with the client's two headers, sent to the base URL followed by
\* what GetPath returned, and the answer of the server.
GetByPath(pathName) ==
    /\ got' = IF pathName \in DOMAIN client.paths
              THEN client.paths[pathName] ELSE ""
    /\ request' =
          [state |-> "answered", asked |-> pathName, path |-> got',
           url |-> parseRequestURL(got', NoParams, NoParams),
           header |-> parseRequestHeader(client.baseHeaders,
                                         SetDefaultHeaders(client, NoHeader)),
           logged |-> LogRequestRecord(SetDefaultHeaders(client, NoHeader)),
           err |-> <<>>,
           status |-> Serve(client, parseRequestURL(got', NoParams, NoParams))]
    /\ UNCHANGED <<config, opts, cb, calls, client, req>>

\* The config after WithCircuitBreaker was applied to it.
ApplyBreakerOption(c, timeout, failureThreshold, successThreshold, policies) ==
    [c EXCEPT
        !.circuitBreaker = WithCircuitBreakerOption(
            timeout, failureThreshold, successThreshold, policies),
        !.supplied = TRUE,
        !.args = [timeout |-> timeout,
                  failureThreshold |-> failureThreshold,
                  successThreshold |-> successThreshold,
                  policies |-> policies],
        !.applied = Append(@, "WithCircuitBreaker")]

\* The config after WithCircuitBreakerEnabled was applied to it.
ApplyEnabledOption(c, enabled) ==
    [c EXCEPT
        !.circuitBreakerEnabled = enabled,
        !.enabledSet = TRUE,
        !.applied = Append(@, IF enabled
                              THEN "WithCircuitBreakerEnabled(true)"
                              ELSE "WithCircuitBreakerEnabled(false)")]

\* The rest of NewClient: the breaker of the config is dropped unless the
\* enable flag is set, and what is left is given to the engine client.
AttachBreaker(c) ==
    [c EXCEPT
        !.built = TRUE,
        !.attached = BreakerAttached(
            [circuitBreakerEnabled |-> c.circuitBreakerEnabled,
             circuitBreakerSupplied |-> c.supplied]),
        !.breaker = IF BreakerAttached(
                          [circuitBreakerEnabled |-> c.circuitBreakerEnabled,
                           circuitBreakerSupplied |-> c.supplied])
                    THEN c.circuitBreaker ELSE NoBreaker]

\* The options the hooks of the client close over, as the config has them.
ClosedOver(o, c) ==
    [o EXCEPT
        !.circuitBreakerSupplied = c.supplied,
        !.circuitBreakerEnabled = c.circuitBreakerEnabled,
        !.failureThreshold = c.args.failureThreshold,
        !.successThreshold = c.args.successThreshold]

\* NewClient's loop applies WithCircuitBreaker.
ApplyWithCircuitBreaker(timeout, failureThreshold, successThreshold, policies) ==
    /\ ~config.built
    /\ Len(config.applied) < MaxOptions
    /\ config' = ApplyBreakerOption(config, timeout, failureThreshold,
                                    successThreshold, policies)
    /\ UNCHANGED <<opts, cb, calls, client, req, request, got>>

\* NewClient's loop applies WithCircuitBreakerEnabled.
ApplyWithCircuitBreakerEnabled(enabled) ==
    /\ ~config.built
    /\ Len(config.applied) < MaxOptions
    /\ config' = ApplyEnabledOption(config, enabled)
    /\ UNCHANGED <<opts, cb, calls, client, req, request, got>>

\* NewClient after its loop.
BuildClient ==
    /\ ~config.built
    /\ config' = AttachBreaker(config)
    /\ opts' = ClosedOver(opts, config)
    /\ UNCHANGED <<cb, calls, client, req, request, got>>

\* The client and the descriptor of the calls whose steps are followed: the
\* README's registry, no default headers, a request without credentials.
DefaultBuilder ==
    /\ client = NewClient(<<>>, paths, NoHeader)
    /\ req = NewRequest("getUser", NoParams, NoParams, NoHeader, NoAuth)
    /\ request = NoRequest
    /\ got = "unset"
    /\ config = NoConfig

Init ==
    /\ DefaultBuilder
    /\ opts \in OptionSets
    /\ cb = NewCircuitBreaker
    /\ calls = [c \in Calls |-> IdleCall]

Next ==
    \/ \E c \in Calls, name \in RouteNames, bodyOk \in BOOLEAN,
          hasParent \in BOOLEAN : Do(c, name, bodyOk, hasParent)
    \/ \E c \in Calls : BreakerAllow(c)
    \/ \E c \in Calls : StartTrace(c)
    \/ \E c \in Calls : LogRequest(c)
    \/ \E c \in Calls : PrepareRequest(c)
    \/ \E c \in Calls, o \in Outcomes : RoundTrip(c, o)
    \/ \E c \in Calls : BreakerReport(c)
    \/ \E c \in Calls : ParseResponse(c)
    \/ \E c \in Calls : LogResponse(c)
    \/ \E c \in Calls : EndTraceSuccess(c)
    \/ \E c \in Calls : OnError(c)
    \/ \E c \in Calls : OnPanic(c)
    \/ \E c \in Calls : DoReturn(c)
    \/ WindowElapses
    \/ BreakerTimeout

Spec == Init /\ [][Next]_vars

\* The same client with a retry count set.
InitRetry ==
    /\ DefaultBuilder
    /\ opts \in RetryOptionSets
    /\ cb = NewCircuitBreaker
    /\ calls = [c \in Calls |-> IdleCall]

SpecRetry == InitRetry /\ [][Next]_vars

\* req := client.NewRequest(ctx), then req.Get(...) a second time on the same
\* request object: Execute runs the pipeline again on the request as the
\* first execution left it, its context and its headers included.
ReuseRequest(c) ==
    /\ calls[c].pc = "done"
    /\ calls[c].ret.kind # "panic"
    /\ PathFound(calls[c].pathName)
    /\ calls' = [calls EXCEPT ![c] =
         [DoCall(calls[c].pathName, calls[c].bodyOk, calls[c].hasParent)
            EXCEPT !.ctxSpan = calls[c].ctxSpan,
                   !.injected = calls[c].injected,
                   !.carrier = calls[c].carrier]]
    /\ UNCHANGED <<opts, cb, builder>>

\* Calls made with a fresh request each and calls that execute the request
\* of the call before again, on a client with logging and tracing enabled.
InitReuse ==
    /\ DefaultBuilder
    /\ opts \in {o \in RetryOptionSets : o.retryCount = 0}
    /\ cb = NewCircuitBreaker
    /\ calls = [c \in Calls |-> IdleCall]

NextReuse ==
    \/ Next
    \/ \E c \in Calls : ReuseRequest(c)

SpecReuse == InitReuse /\ [][NextReuse]_vars

\* Request building on its own: clients built with each version, registry
\* and set of default headers, with logging on or off and nothing else
\* enabled, and the descriptors callers build for them.
BuildOptionSets ==
    {o \in OptionSets : ~o.otelMWEnabled /\ ~o.circuitBreakerSupplied
                          /\ ~o.circuitBreakerEnabled}

InitBuild ==
    /\ opts \in BuildOptionSets
    /\ cb = NewCircuitBreaker
    /\ calls = [c \in Calls |-> IdleCall]
    /\ client \in {NewClient(v, p, h) :
                      v \in Versions, p \in PathSets, h \in BaseHeaderSets}
    /\ req = NewRequest("getUser", NoParams, NoParams, NoHeader, NoAuth)
    /\ request = NoRequest
    /\ got = "unset"
    /\ config = NoConfig

NextBuild ==
    \/ \E pathName \in PathNames, pathParams \in PathParamSets,
          queryParams \in QueryParamSets, header \in CallHeaderSets,
          basicAuth \in BasicAuths :
            BuildRequest(pathName, pathParams, queryParams, header, basicAuth)
    \/ SetAuthToken
    \/ DoRequest
    \/ \E pathName \in PathNames : GetPath(pathName)

SpecBuild == InitBuild /\ [][NextBuild]_vars

\* Lookups in the registry and requests made with what they return.
NextPath ==
    \/ \E pathName \in PathNames : GetPath(pathName)
    \/ \E pathName \in PathNames : GetByPath(pathName)

SpecPath == InitBuild /\ [][NextPath]_vars

\* The options of the breaker on their own: every order of at most
\* MaxOptions of them, then the construction of the client.
InitOptions ==
    /\ DefaultBuilder
    /\ opts \in BuildOptionSets
    /\ cb = NewCircuitBreaker
    /\ calls = [c \in Calls |-> IdleCall]

NextOptions ==
    \/ \E timeout \in Timeouts, failureThreshold \in 0..MaxThreshold,
          successThreshold \in 0..MaxThreshold, policies \in PolicyLists :
            ApplyWithCircuitBreaker(timeout, failureThreshold,
                                    successThreshold, policies)
    \/ \E enabled \in BOOLEAN : ApplyWithCircuitBreakerEnabled(enabled)
    \/ BuildClient

SpecOptions == InitOptions /\ [][NextOptions]_vars

\* The options of the breaker a test passes: WithCircuitBreaker(0, 2, 1)
\* and WithCircuitBreakerEnabled, in lists of at most MaxOptions.
AttachOptions ==
    {"WithCircuitBreaker", "WithCircuitBreakerEnabled(true)",
     "WithCircuitBreakerEnabled(false)"}

OptionLists == UNION {[1..n -> AttachOptions] : n \in 0..MaxOptions}

ApplyOption(c, option) ==
    CASE option = "WithCircuitBreaker" -> ApplyBreakerOption(c, 0, 2, 1, <<>>)
      [] option = "WithCircuitBreakerEnabled(true)" -> ApplyEnabledOption(c, TRUE)
      [] option = "WithCircuitBreakerEnabled(false)" -> ApplyEnabledOption(c, FALSE)

\* NewClient's loop over the options, in their order.
RECURSIVE ApplyOptions(_, _)
ApplyOptions(c, options) ==
    IF options = <<>> THEN c
    ELSE ApplyOptions(ApplyOption(c, Head(options)), Tail(options))

\* The calls made on the client NewClient built of a list of options, with
\* logging and tracing enabled.
InitAttach ==
    /\ client = NewClient(<<>>, paths, NoHeader)
    /\ req = NewRequest("getUser", NoParams, NoParams, NoHeader, NoAuth)
    /\ request = NoRequest
    /\ got = "unset"
    /\ \E options \in OptionLists :
        /\ config = AttachBreaker(ApplyOptions(NoConfig, options))
        /\ opts = ClosedOver(
                    [logMWEnabled |-> TRUE, otelMWEnabled |-> TRUE,
                     circuitBreakerSupplied |-> FALSE,
                     circuitBreakerEnabled |-> FALSE,
                     failureThreshold |-> 0, successThreshold |-> 0,
                     retryCount |-> 0],
                    ApplyOptions(NoConfig, options))
    /\ cb = NewCircuitBreaker
    /\ calls = [c \in Calls |-> IdleCall]

SpecAttach == InitAttach /\ [][Next]_vars

----------------------------------------------------------------------------
\* Properties.

Done(k) == k.pc = "done"

\* C1: a call for a route name that is not a key of the registry returns a nil
\* response and an error naming the key, and has no other effect: the breaker
\* is not consulted, no span is started or touched, no record is emitted and
\* nothing is sent.
C1_RouteNotFound ==
    \A c \in Calls :
        (calls[c].pc # "idle" /\ calls[c].pathName \notin DOMAIN paths) =>
            /\ calls[c].pc = "done"
            /\ calls[c].ret = [kind |-> "error", status |-> 0,
                               err |-> "RouteNotFound",
                               key |-> calls[c].pathName]
            /\ calls[c].stages = <<>>
            /\ calls[c].logs = <<>>
            /\ calls[c].child = NoSpan
            /\ calls[c].parent = NoSpan
            /\ ~calls[c].sent
            /\ ~calls[c].injected

C1_Witness ==
    \E c \in Calls :
        /\ Done(calls[c])
        /\ calls[c].pathName = "missing"
        /\ calls[c].ret.key = "missing"
        /\ cfg.otelMWEnabled /\ cfg.logMWEnabled /\ cfg.circuitBreaker

\* The outcomes C2 is about: a response of any status, or a transport error.
Completed(k) == Done(k) /\ k.sent /\ k.err \in {"none", "Transport"}

RequestRecord(r) == r.hook = "request"

ResponseRecord(r) == r.hook = "response"

\* C3: a call made with logging enabled whose request was handed to the
\* transport has emitted exactly two records when it is over, the pre-send one
\* and then the post-receive one, also when the transport call failed.
C3_TwoRecords ==
    \A c \in Calls :
        (cfg.logMWEnabled /\ Done(calls[c]) /\ calls[c].sent) =>
            /\ Len(calls[c].logs) = 2
            /\ RequestRecord(calls[c].logs[1])
            /\ ResponseRecord(calls[c].logs[2])

\* The stages that have run in the call.
StagesRun(k) == {k.stages[i] : i \in 1..Len(k.stages)}

\* Stage b has not run, or stage a has run too.
Requires(k, a, b) == b \in StagesRun(k) => a \in StagesRun(k)

\* The stages of the call ran by increasing rank; the error hook alone may run
\* twice in a row.
InOrder(k, rank) ==
    \A i \in 1..(Len(k.stages) - 1) :
        \/ rank[k.stages[i]] < rank[k.stages[i + 1]]
        \/ k.stages[i] = "endTraceError" /\ k.stages[i + 1] = "endTraceError"

\* What a stage needs to have run before it, and the place of the two records
\* around the transport call.
HookOrder(k) ==
    /\ Requires(k, "startTrace", "logRequest")
    /\ Requires(k, "logRequest", "roundTrip")
    /\ Requires(k, "roundTrip", "logResponse")
    /\ Requires(k, "logResponse", "endTraceSuccess")
    /\ cfg.circuitBreaker => Requires(k, "allow", "startTrace")
    /\ (k.sent /\ cfg.logMWEnabled) =>
            Len(k.logs) >= 1 /\ RequestRecord(k.logs[1])
    /\ \A i \in 1..Len(k.logs) :
            ResponseRecord(k.logs[i]) =>
                k.sent /\ i = 2 /\ RequestRecord(k.logs[1])

\* The order as stated: the report to the breaker comes last.
RankReportLast ==
    [allow |-> 1, startTrace |-> 2, logRequest |-> 3, prepareRequest |-> 4,
     roundTrip |-> 5, parseResponse |-> 6, logResponse |-> 7,
     endTraceSuccess |-> 8, endTraceError |-> 9, applyPolicies |-> 10]

\* The order with the report to the breaker right after the transport call.
RankReportFirst ==
    [allow |-> 1, startTrace |-> 2, logRequest |-> 3, prepareRequest |-> 4,
     roundTrip |-> 5, applyPolicies |-> 6, parseResponse |-> 7,
     logResponse |-> 8, endTraceSuccess |-> 9, endTraceError |-> 10]

Rejected(k) == "allow" \in StagesRun(k) /\ "startTrace" \notin StagesRun(k)

\* C5: with the breaker attached, a call that finds the breaker Open (as it is
\* after failureThreshold failed calls) returns a nil response and the
\* breaker-open error, and never reaches the server.
C5_OpenRejects ==
    \A c \in Calls :
        (cfg.circuitBreaker /\ Done(calls[c]) /\ Rejected(calls[c])) =>
            /\ calls[c].ret = [kind |-> "error", status |-> 0,
                               err |-> "BreakerOpen", key |-> "none"]
            /\ ~calls[c].sent

Failure(k) == CircuitBreaker5xxPolicy(k.status)

\* C6: while the breaker is Open every call that asks it is rejected; a call
\* let through while Half-Open whose response is a failure opens the breaker
\* again; and a rejected call ends by returning the breaker-open error.
C6_TrialFailureReopens ==
    [][\A c \in Calls :
        /\ (cfg.circuitBreaker /\ calls[c].pc = "allow" /\ cb.state = "Open"
                /\ calls'[c].pc # "allow") =>
              calls'[c].err = "BreakerOpen"
        /\ (cfg.circuitBreaker /\ calls[c].pc = "applyPolicies"
                /\ cb.state = "HalfOpen" /\ Failure(calls[c])
                /\ calls'[c].pc # "applyPolicies") =>
              cb'.state = "Open"
        /\ (calls[c].err = "BreakerOpen" /\ ~Done(calls[c]) /\ Done(calls'[c])) =>
              (calls'[c].ret.kind = "error" /\ calls'[c].ret.err = "BreakerOpen")
      ]_vars

\* The success threshold the caller passed (zero: the default).
SuccessThresholdAsked ==
    IF opts.successThreshold > 0 THEN opts.successThreshold
    ELSE DefaultSuccessThreshold

\* C7: while Half-Open, the report of a successful response closes the breaker
\* exactly when it is the successThreshold-th success; while Closed a
\* successful response leaves it Closed, a call that asks it passes the gate,
\* and a call that ends without error returns its response.
C7_HalfOpenCloses ==
    [][\A c \in Calls :
        /\ (cfg.circuitBreaker /\ calls[c].pc = "applyPolicies"
                /\ calls'[c].pc # "applyPolicies" /\ ~Failure(calls[c])) =>
              /\ cb.state = "HalfOpen" =>
                    IF cb.successCount + 1 >= SuccessThresholdAsked
                    THEN cb'.state = "Closed" /\ cb'.successCount = 0
                    ELSE cb'.state = "HalfOpen"
                            /\ cb'.successCount = cb.successCount + 1
              /\ cb.state = "Closed" => cb'.state = "Closed"
        /\ (cfg.circuitBreaker /\ calls[c].pc = "allow" /\ cb.state = "Closed"
                /\ calls'[c].pc # "allow") =>
              (calls'[c].err = "none" /\ calls'[c].pc = "startTrace")
        /\ (calls[c].pc = "return" /\ calls[c].err = "none" /\ Done(calls'[c])) =>
              calls'[c].ret = [kind |-> "ok", status |-> calls[c].status,
                               err |-> "none", key |-> "none"]
      ]_vars

C7_Witness ==
    \E c \in Calls :
        /\ Done(calls[c])
        /\ calls[c].breakerEffect = "closed"
        /\ calls[c].ret.kind = "ok" /\ calls[c].ret.status = 200
        /\ cb.state = "Closed"
        /\ opts.successThreshold = 1 /\ opts.failureThreshold = 2

\* C8: a call rejected by the breaker has no other effect: it starts no span,
\* touches no span of the caller, emits no record, sends nothing, and returns
\* the breaker-open error.
C8_RejectionHasNoEffect ==
    \A c \in Calls :
        calls[c].err = "BreakerOpen" =>
            /\ calls[c].child = NoSpan
            /\ calls[c].parent = NoSpan
            /\ calls[c].logs = <<>>
            /\ ~calls[c].sent
            /\ ~calls[c].panicked
            /\ Done(calls[c]) => calls[c].ret.err = "BreakerOpen"

\* C9: without WithCircuitBreakerEnabled(true) no breaker is attached, also
\* when WithCircuitBreaker was supplied: the breaker is never asked, never
\* told of a response, and no call is rejected, however many calls failed.
C9_DisabledNeverRejects ==
    ~opts.circuitBreakerEnabled =>
        /\ cb = NewCircuitBreaker
        /\ \A c \in Calls :
            /\ calls[c].err # "BreakerOpen"
            /\ "allow" \notin StagesRun(calls[c])
            /\ "applyPolicies" \notin StagesRun(calls[c])

C9_Witness ==
    /\ opts.circuitBreakerSupplied /\ ~opts.circuitBreakerEnabled
    /\ opts.failureThreshold = 1
    /\ \A c \in Calls :
        Done(calls[c]) /\ calls[c].ret.kind = "ok" /\ calls[c].ret.status = 500

\* What each error Do returns is caused by.
ErrorCause(k) ==
    CASE k.ret.err = "RouteNotFound" -> k.pathName \notin DOMAIN paths
      [] k.ret.err = "BreakerOpen" -> opts.circuitBreakerEnabled /\ ~k.sent
      [] k.ret.err = "Transport" -> k.sent /\ k.status = 0
      [] k.ret.err = "Decode" -> IsSuccess(k.status) /\ ~k.decodable
      [] k.ret.err \in {"Marshal", "Encode"} -> ~k.bodyOk /\ ~k.sent
      [] OTHER -> FALSE

\* A response with an error status is returned as a response.
StatusIsNoError(k) ==
    IsError(k.status) =>
        k.ret = [kind |-> "ok", status |-> k.status, err |-> "none",
                 key |-> "none"]

\* C10 as stated: a 4xx or 5xx response is returned without error, and Do
\* returns an error only for route not found, breaker rejection, transport
\* failure and decode failure.
C10_FourErrors ==
    \A c \in Calls :
        Done(calls[c]) =>
            /\ StatusIsNoError(calls[c])
            /\ calls[c].ret.kind = "error" =>
                /\ calls[c].ret.err \in
                     {"RouteNotFound", "BreakerOpen", "Transport", "Decode"}
                /\ ErrorCause(calls[c])

\* C10 (amended): a 4xx or 5xx response is returned without error, with the
\* response's status; Do returns an error only for route not found, breaker
\* rejection, a request body that cannot be encoded, transport failure and
\* decode failure.
C10_ErrorsReturned ==
    \A c \in Calls :
        Done(calls[c]) =>
            /\ StatusIsNoError(calls[c])
            /\ calls[c].ret.kind = "error" =>
                /\ calls[c].ret.err \in
                     {"RouteNotFound", "BreakerOpen", "Marshal", "Encode",
                      "Transport", "Decode"}
                /\ ErrorCause(calls[c])

C10_Witness ==
    \E c, d \in Calls :
        /\ Done(calls[c]) /\ calls[c].status = 404 /\ calls[c].ret.kind = "ok"
        /\ Done(calls[d]) /\ calls[d].ret.kind = "error"
        /\ calls[d].ret.err = "Marshal"

\* C11: when the body of the response cannot be decoded into the result type,
\* Do returns the decode error together with the response it received (its
\* status), not a nil response.
C11_DecodeKeepsResponse ==
    \A c \in Calls :
        (Done(calls[c]) /\ calls[c].err = "Decode") =>
            /\ calls[c].ret.kind = "error"
            /\ calls[c].ret.err = "Decode"
            /\ calls[c].ret.status = calls[c].status

\* C12: a request body that cannot be marshalled for the pre-send record does
\* not fail the call: logRequest emits a record carrying the marshal error,
\* returns no error, and the call goes on to the transport.
C12_LogFailureDoesNotAbort ==
    \A c \in Calls :
        (cfg.logMWEnabled /\ ~calls[c].bodyOk
            /\ "logRequest" \in StagesRun(calls[c])) =>
            /\ calls[c].logs # <<>>
            /\ calls[c].logs[1] = [hook |-> "request", level |-> "error"]
            /\ calls[c].err # "Marshal"
            /\ calls[c].pc # "onError"

\* C13: no hook of the client ends the span the caller's context carries, or
\* sets its status or records an error on it, whatever the outcome of the call.
C13_ParentSpanUntouched ==
    \A c \in Calls : calls[c].parent = NoSpan

\* C14: when no span was started for a call, the ending hooks do nothing: no
\* span is ended, nothing is recorded on any span, and no hook panics, also
\* when the error hook runs before the http.Request exists.
C14_NoSpanNoEffect ==
    \A c \in Calls :
        calls[c].child.started = 0 =>
            /\ calls[c].child = NoSpan
            /\ calls[c].parent = NoSpan
            /\ ~calls[c].panicked

SpanStatusFor(k) ==
    IF k.err = "Transport" \/ IsError(k.status) THEN "error" ELSE "ok"

Returned(k) ==
    IF ~PathFound(k.pathName)
    THEN [kind |-> "error", status |-> 0, err |-> "RouteNotFound",
          key |-> k.pathName]
    ELSE DoResult(k)

\* C17: with tracing disabled no call starts, ends or touches a span, and no
\* hook panics; and whether tracing is enabled or not, a call returns what
\* Execute ended in: the same response or error.
C17_TracingTransparent ==
    \A c \in Calls :
        /\ ~cfg.otelMWEnabled =>
            /\ calls[c].child = NoSpan
            /\ calls[c].parent = NoSpan
            /\ ~calls[c].injected
            /\ ~calls[c].panicked
        /\ Done(calls[c]) => calls[c].ret = Returned(calls[c])

\* The error the call ends in when the logging hooks do nothing: a body that
\* cannot be encoded is then found by the engine's own request preparation.
ErrWithoutLogging(k) == IF k.err = "Marshal" THEN "Encode" ELSE k.err

\* C18: with logging disabled no call emits a record; and whether logging is
\* enabled or not, a call that returns an error returns the same error.
C18_LoggingTransparent ==
    \A c \in Calls :
        /\ ~cfg.logMWEnabled => calls[c].logs = <<>>
        /\ (Done(calls[c]) /\ calls[c].ret.kind = "error"
                /\ PathFound(calls[c].pathName)) =>
              calls[c].ret.err = ErrWithoutLogging(calls[c])

\* C19: a call that the engine executes as several attempts still emits one
\* pre-send and one post-receive record and has one span, started once and
\* ended once.
C19_OnePairPerCall ==
    \A c \in Calls :
        (cfg.logMWEnabled /\ cfg.otelMWEnabled /\ Done(calls[c])
            /\ calls[c].hasParent /\ calls[c].ret.kind = "ok") =>
            /\ Len(calls[c].logs) = 2
            /\ calls[c].child.started = 1
            /\ calls[c].child.ended = 1

\* C20: when a call whose span was started ends in a panic, the span has been
\* ended exactly once, with the error recorded on it and its status error.
C20_PanicEndsSpanOnce ==
    \A c \in Calls :
        (Done(calls[c]) /\ calls[c].ret.kind = "panic"
            /\ calls[c].child.started = 1) =>
            /\ calls[c].child.ended = 1
            /\ calls[c].child.status = "error"
            /\ calls[c].child.errors = 1

----------------------------------------------------------------------------
\* C21: when the transport fails (connection refused, timeout, cancellation),
\* Do returns a nil response and an error whose chain holds the transport's
\* error: the cause recorded in the returned error is the transport failure.
C21_TransportErrorWrapped ==
    \A c \in Calls :
        Done(calls[c]) /\ calls[c].err = "Transport" =>
            /\ calls[c].ret.kind = "error"
            /\ calls[c].ret.status = 0
            /\ calls[c].ret.err = "Transport"

\* A call whose round trip failed in the transport has returned.
C21_Witness ==
    \E c \in Calls :
        /\ Done(calls[c])
        /\ calls[c].sent
        /\ calls[c].err = "Transport"
        /\ calls[c].ret.kind = "error"

\* Do's credential step is guarded: the request that is sent carries a Basic
\* Authorization header only when the descriptor was given credentials, and
\* otherwise the Authorization header is whatever the call's headers hold.
BasicAuthOnlyWhenSet ==
    (request.state = "built" /\ req.authToken = <<>>) =>
        IF req.basicAuth.set
        THEN Get(request.header, "Authorization")[1] = "Basic"
        ELSE Get(request.header, "Authorization") =
                Get(parseRequestHeader(client.baseHeaders, req.header),
                    "Authorization")

\* C22: a call whose request carries no basic-auth credentials never panics:
\* Do applies no basic auth and the call returns a response or an error.
C22_NoPanicWithoutBasicAuth ==
    \A c \in Calls :
        (Done(calls[c]) /\ ~calls[c].basicAuth) =>
            /\ calls[c].ret.kind \in {"ok", "error"}
            /\ ~calls[c].panicked

\* The credentials two calls may carry in their Authorization header.
Secrets == {<<"Bearer", "secret-1">>, <<"Bearer", "secret-2">>}

\* C23: no header value reaches a log record unmasked: the record logRequest
\* wrote for a call is the record it writes for the call that differs only in
\* the credential of its Authorization header.
C23_LogsIndependentOfSecrets ==
    (request.state = "built" /\ request.logged.emitted
        /\ "Authorization" \in DOMAIN req.header) =>
        \A v \in Secrets :
            LogRequestRecord(Set(req.header, "Authorization", v)) = request.logged

\* C24: the span started for a call is a child of the caller's span: its
\* parent is the span of the caller's context, it belongs to the caller's
\* trace, and the trace context injected into the request headers identifies
\* the new span, not the parent.
C24_ChildOfCallerSpan ==
    \A c \in Calls :
        calls[c].child.started > 0 =>
            /\ calls[c].hasParent
            /\ calls[c].childLink = [parent |-> "parent", trace |-> "caller"]
            /\ calls[c].carrier = "child"

\* A call made with a parent span has started its span and has returned.
C24_Witness ==
    \E c \in Calls :
        /\ Done(calls[c]) /\ calls[c].hasParent /\ calls[c].sent
        /\ calls[c].child.started = 1
        /\ calls[c].carrier = "child"

\* C25: the final status of a call's span is a function of the call's
\* outcome: ok with an empty description for a response below 400, error for
\* a response of 400 or above, and for a transport failure error with the
\* error's message as description and one recorded exception event.
C25_StatusOfOutcome ==
    \A c \in Calls :
        (Completed(calls[c]) /\ calls[c].child.started = 1) =>
            CASE calls[c].err = "Transport" ->
                    /\ calls[c].child.status = "error"
                    /\ calls[c].child.description = "Transport"
                    /\ calls[c].child.errors = 1
              [] calls[c].err = "none" /\ calls[c].status < 400 ->
                    /\ calls[c].child.status = "ok"
                    /\ calls[c].child.description = ""
                    /\ calls[c].child.errors = 0
              [] OTHER ->
                    /\ calls[c].child.status = "error"
                    /\ calls[c].child.errors = 0

\* Three calls' outcomes cannot be in one state of two callers: a call with
\* a span has ended in a transport failure while the other got a 200.
C25_Witness ==
    \E c, d \in Calls :
        /\ Completed(calls[c]) /\ calls[c].child.started = 1
        /\ calls[c].err = "Transport" /\ calls[c].child.description = "Transport"
        /\ Completed(calls[d]) /\ calls[d].child.started = 1
        /\ calls[d].err = "none" /\ calls[d].status = 200
        /\ calls[d].child.status = "ok"

CallsIsolated ==
    [][\A c, d \in Calls :
          c # d => (calls'[c] = calls[c] \/ calls'[d] = calls[d])]_vars

\* C27: with logging enabled, calls made on one client at the same time each
\* complete without panic and return their own response or error.
C27_ConcurrentCallsComplete ==
    \A c, d \in Calls :
        (/\ c # d /\ cfg.logMWEnabled
         /\ Done(calls[c]) /\ calls[d].pc # "idle") =>
            /\ ~calls[c].panicked
            /\ calls[c].ret = Returned(calls[c])

\* The URL <base>/users/1?foo=bar of the scenario with the registry
\* {getUser: /users/{id}}, id=1 and foo=bar.
ScenarioURL ==
    [base |-> baseURL,
     path |-> <<[kind |-> "lit", text |-> <<"users">>],
                [kind |-> "lit", text |-> <<"1">>]>>,
     query |-> "foo" :> <<"bar">>]

\* C28: for a route whose template has placeholders, the request goes to the
\* base URL followed by the template with every placeholder replaced by the
\* call's path parameter (escaped for a path), with the call's query
\* parameters attached; id=1 and foo=bar on /users/{id} give
\* <base>/users/1?foo=bar.
C28_URLFromTemplate ==
    request.state = "built" =>
        LET segs == Segments(client.paths[req.pathName]) IN
        /\ request.url.base = baseURL
        /\ Len(request.url.path) = Len(segs)
        /\ \A i \in 1..Len(segs) :
             IF segs[i].kind = "lit" THEN request.url.path[i] = segs[i]
             ELSE segs[i].text[1] \in DOMAIN req.pathParams =>
                    /\ request.url.path[i].kind = "lit"
                    /\ request.url.path[i].text =
                          PathEscape(req.pathParams[segs[i].text[1]])
        /\ DOMAIN request.url.query = DOMAIN req.queryParams
        /\ \A q \in DOMAIN req.queryParams :
             request.url.query[q] = QueryEscape(req.queryParams[q])
        /\ (/\ req.pathName = "getUser"
            /\ req.pathParams = ("id" :> <<"1">>)
            /\ req.queryParams = ("foo" :> <<"bar">>))
                => request.url = ScenarioURL

\* The scenario has been sent.
C28_Witness ==
    /\ request.state = "built"
    /\ req.pathName = "getUser"
    /\ req.pathParams = ("id" :> <<"1">>)
    /\ req.queryParams = ("foo" :> <<"bar">>)
    /\ request.url = ScenarioURL

\* The step of Do that turns the descriptor into the request that is sent;
\* before it the header map of the descriptor is as the caller gave it.
DoRequestStep == request.state = "none" /\ request'.state = "built"

\* The merge of the client's default headers and the call's headers.
MergedHeader(h) ==
    IF h \in DOMAIN req.header THEN req.header[h] ELSE client.baseHeaders[h]

\* The headers Do does not write itself are merged as the claim says: the
\* call's value when the call has the name, the client's otherwise.
OtherHeadersMerged ==
    [][(DoRequestStep /\ ~req.basicAuth.set /\ req.authToken = <<>>) =>
          \A h \in (DOMAIN client.baseHeaders \cup DOMAIN req.header)
                      \ {"Content-Type", "User-Agent"} :
              Get(request'.header, h) = MergedHeader(h)]_vars

\* C29: the headers sent are the merge of the client's default headers and
\* the call's headers: a header only one of them has is sent with that
\* value, and a header both have is sent with the call's value.
C29_HeadersMerged ==
    [][(DoRequestStep /\ ~req.basicAuth.set /\ req.authToken = <<>>) =>
          \A h \in DOMAIN client.baseHeaders \cup DOMAIN req.header :
              Get(request'.header, h) = MergedHeader(h)]_vars

\* C30: Content-Type and User-Agent are defaults the caller can override:
\* a call whose headers do not set them is sent with Content-Type
\* application/json and User-Agent <name>/<version> (<name>/ when the version
\* is empty), and a call that sets either of them is sent with its own value.
C30_DefaultsCanBeOverridden ==
    [][DoRequestStep =>
          /\ IF "Content-Type" \in DOMAIN req.header
             THEN Get(request'.header, "Content-Type") = req.header["Content-Type"]
             ELSE Get(request'.header, "Content-Type") = <<"application/json">>
          /\ IF "User-Agent" \in DOMAIN req.header
             THEN Get(request'.header, "User-Agent") = req.header["User-Agent"]
             ELSE Get(request'.header, "User-Agent") =
                    IF client.version = <<>> THEN <<"test-client", "/">>
                    ELSE <<"test-client", "/", "1.2.0">>]_vars

\* What Do does with the two headers: the call's Content-Type is kept and
\* application/json is the default; the User-Agent is always the client's.
DefaultHeadersSent ==
    [][DoRequestStep =>
          /\ IF "Content-Type" \in DOMAIN req.header
             THEN Get(request'.header, "Content-Type") = req.header["Content-Type"]
             ELSE Get(request'.header, "Content-Type") = <<"application/json">>
          /\ Get(request'.header, "User-Agent") =
                IF client.version = <<>> THEN <<"test-client", "/">>
                ELSE <<"test-client", "/", "1.2.0">>]_vars

\* The Authorization headers of the two authentications.
BearerHeader == <<"Bearer", "token">>

BasicHeader == <<"Basic", "base64", "testuser", ":", "testpass">>

Attempts(k) ==
    Cardinality({i \in 1..Len(k.stages) : k.stages[i] = "roundTrip"})

\* C32: with a retry count of k a call makes at most 1 + k attempts; it
\* makes another attempt only after a response that is retried (a 5xx), so
\* it stops at the first response that is not; and it returns the final
\* response without error.
C32_RetryBounded ==
    [][\A c \in Calls :
          /\ Attempts(calls'[c]) <= 1 + opts.retryCount
          /\ (calls[c].attempt > 0 /\ calls'[c].attempt > calls[c].attempt) =>
                (calls[c].err = "none" /\ calls[c].status > 499)
          /\ (Done(calls'[c]) /\ calls'[c].sent /\ calls'[c].err = "none") =>
                /\ calls'[c].ret.kind = "ok"
                /\ calls'[c].ret.status = calls'[c].status
                /\ Attempts(calls'[c]) < 1 + opts.retryCount =>
                      calls'[c].status < 500
                /\ opts.retryCount = 0 => Attempts(calls'[c]) = 1]_vars

\* A call has used every attempt and has returned the 200 of the last one.
C32_Witness ==
    \E c \in Calls :
        /\ Done(calls[c])
        /\ Attempts(calls[c]) = 1 + MaxRetries
        /\ calls[c].status = 200
        /\ calls[c].ret.kind = "ok"
        /\ calls[c].ret.status = 200

----------------------------------------------------------------------------
\* C33: WithCircuitBreaker keeps the breaker's default for every argument
\* passed as a zero value (timeout 10s, failureThreshold 3, successThreshold
\* 1, the policy "status code 500 and above is a failure") and sets every
\* argument that is not zero; nil policies are dropped, and when every
\* supplied policy is nil (or none is supplied) the default policy stays.
C33_ZeroKeepsDefault ==
    config.supplied =>
        /\ config.circuitBreaker.timeout =
              IF config.args.timeout = 0 THEN DefaultTimeout
              ELSE config.args.timeout
        /\ config.circuitBreaker.failureThreshold =
              IF config.args.failureThreshold = 0 THEN DefaultFailureThreshold
              ELSE config.args.failureThreshold
        /\ config.circuitBreaker.successThreshold =
              IF config.args.successThreshold = 0 THEN DefaultSuccessThreshold
              ELSE config.args.successThreshold
        /\ \A i \in DOMAIN config.circuitBreaker.policies :
              config.circuitBreaker.policies[i] # "nil"
        /\ (\A i \in DOMAIN config.args.policies : config.args.policies[i] = "nil")
              => config.circuitBreaker.policies = <<"CircuitBreaker5xxPolicy">>
        /\ (\E i \in DOMAIN config.args.policies : config.args.policies[i] # "nil")
              => config.circuitBreaker.policies = <<"custom">>

\* WithCircuitBreaker(0, 0, 0, nil, nil) was applied and the breaker of the
\* config has the four defaults.
C33_Witness ==
    /\ config.supplied
    /\ config.args = [timeout |-> 0, failureThreshold |-> 0,
                      successThreshold |-> 0, policies |-> <<"nil", "nil">>]
    /\ config.circuitBreaker =
          [timeout |-> DefaultTimeout,
           failureThreshold |-> DefaultFailureThreshold,
           successThreshold |-> DefaultSuccessThreshold,
           policies |-> <<"CircuitBreaker5xxPolicy">>]

----------------------------------------------------------------------------
\* Whether WithCircuitBreaker is among the options applied.
BreakerSupplied == \E i \in DOMAIN config.applied :
    config.applied[i] = "WithCircuitBreaker"

\* Whether WithCircuitBreakerEnabled(true) is among the options applied and
\* no WithCircuitBreakerEnabled(false) comes after it.
EnableSupplied == \E i \in DOMAIN config.applied :
    /\ config.applied[i] = "WithCircuitBreakerEnabled(true)"
    /\ \A j \in DOMAIN config.applied :
          j > i => config.applied[j] # "WithCircuitBreakerEnabled(false)"

\* C39: a breaker is attached to the client exactly when
\* WithCircuitBreakerEnabled(true) and WithCircuitBreaker were both supplied,
\* in whichever order; with the enable flag set but no WithCircuitBreaker no
\* breaker is attached, the breaker is never asked and no call is rejected.
C39_AttachedIffBothSupplied ==
    config.built =>
        /\ config.attached <=> (BreakerSupplied /\ EnableSupplied)
        /\ cfg.circuitBreaker <=> (BreakerSupplied /\ EnableSupplied)
        /\ ~BreakerSupplied =>
              /\ config.breaker = NoBreaker
              /\ cb = NewCircuitBreaker
              /\ \A c \in Calls :
                    /\ calls[c].err # "BreakerOpen"
                    /\ "allow" \notin StagesRun(calls[c])

\* The enable flag was supplied before the breaker, the breaker is attached
\* and has rejected a call.
C39_Witness ==
    /\ config.built
    /\ config.applied = <<"WithCircuitBreakerEnabled(true)", "WithCircuitBreaker">>
    /\ config.attached
    /\ \E c \in Calls : calls[c].err = "BreakerOpen"

\* The enable flag alone: every call was answered 500 and none was rejected.
FlagOnlyNeverRejected ==
    /\ config.built
    /\ config.applied = <<"WithCircuitBreakerEnabled(true)">>
    /\ \A c \in Calls :
        Done(calls[c]) /\ calls[c].ret.kind = "ok" /\ calls[c].ret.status = 500

----------------------------------------------------------------------------
\* The level the post-receive record of a call is to have: error when the
\* status is 400 or above or the transport call failed, info otherwise.
SeverityOf(k) ==
    IF k.status >= 400 \/ (k.sent /\ k.status = 0) THEN "error" ELSE "info"

\* The levels of the post-receive records the call has emitted.
PostReceiveLevels(k) ==
    {k.logs[i].level : i \in {j \in DOMAIN k.logs : k.logs[j].hook = "response"}}

\* Every post-receive record that was emitted has the level of the status.
LevelOfResponse ==
    \A c \in Calls : PostReceiveLevels(calls[c]) \subseteq {SeverityOf(calls[c])}

\* C34: the post-receive record of a call made with logging enabled is
\* error-level exactly when the response status is 400 or above or a transport
\* error occurred, and info-level in every other case.
C34_SeverityOfOutcome ==
    \A c \in Calls :
        (cfg.logMWEnabled /\ Done(calls[c]) /\ calls[c].sent) =>
            PostReceiveLevels(calls[c]) = {SeverityOf(calls[c])}

----------------------------------------------------------------------------
\* C35: GetPath returns the registered template for a registered name and
\* the empty string for an unregistered name; a request built with the path
\* of an unregistered name is sent to the base URL and completes without
\* error, with the server's response, which is 404.
C35_UnregisteredPathIsBaseURL ==
    request.state = "answered" =>
        /\ request.asked \in DOMAIN client.paths =>
              request.path = client.paths[request.asked]
        /\ request.asked \notin DOMAIN client.paths =>
              /\ request.path = ""
              /\ request.url = [base |-> baseURL, path |-> <<>>,
                                query |-> NoParams]
              /\ request.err = <<>>
              /\ request.status = 404

\* A request was made with the path of "missing", and one route at least is
\* registered and has a handler.
C35_Witness ==
    /\ request.state = "answered"
    /\ request.asked = "missing"
    /\ got = ""
    /\ request.status = 404
    /\ "getUser" \in DOMAIN client.paths

----------------------------------------------------------------------------
\* C36: when logRequest fails on a body that cannot be marshalled, after
\* startTrace has started a span, the request is not handed to the transport,
\* the span is ended exactly once, by the error hook, and the error hook runs
\* to its end without a panic although the http.Request was never built.
C36_PreSendFailureEndsSpan ==
    \A c \in Calls :
        (Done(calls[c]) /\ calls[c].err = "Marshal"
            /\ calls[c].child.started = 1) =>
            /\ ~calls[c].sent
            /\ ~calls[c].rawRequest
            /\ calls[c].child.ended = 1
            /\ ~calls[c].panicked
            /\ calls[c].ret.kind = "error"

----------------------------------------------------------------------------
\* C37: the spans of successive calls made with the same caller context are
\* siblings: the span each call has started has the caller's span as parent
\* and is in the caller's trace, never under the span of an earlier call,
\* also when the same request object is executed again.
C37_SuccessiveSpansAreSiblings ==
    \A c \in Calls :
        calls[c].child.started > 0 =>
            /\ calls[c].childLink.parent # "child"
            /\ calls[c].childLink = [parent |-> "parent", trace |-> "caller"]

\* With a fresh request for every call, as Do makes it, the span of every
\* call is a child of the caller's span whatever the calls before it did.
FreshRequestSiblings ==
    [][\A c \in Calls :
          (calls[c].pc = "startTrace" /\ calls[c].ctxSpan # "child"
              /\ calls'[c].child.started > 0) =>
                calls'[c].childLink = [parent |-> "parent", trace |-> "caller"]]_vars

----------------------------------------------------------------------------
\* The fields of the descriptor Do only reads.
ReadOnlyFields ==
    {"pathName", "pathParams", "queryParams", "basicAuth", "authScheme",
     "authToken"}

\* C38: Do changes nothing in the caller's descriptor except its header map,
\* where it adds Content-Type only when it is absent and sets User-Agent; the
\* path name, the parameters and the auth fields stay as they are, and Do on
\* the descriptor as the first Do left it sends the same request again.
C38_DescriptorKept ==
    [][DoRequestStep =>
        /\ \A f \in ReadOnlyFields : req'[f] = req[f]
        /\ DOMAIN req'.header =
              DOMAIN req.header \cup {"Content-Type", "User-Agent"}
        /\ \A h \in DOMAIN req.header \ {"Content-Type", "User-Agent"} :
              req'.header[h] = req.header[h]
        /\ req'.header["Content-Type"] =
              IF "Content-Type" \in DOMAIN req.header
              THEN req.header["Content-Type"] ELSE <<"application/json">>
        /\ req'.header["User-Agent"] = UserAgent(client)
        /\ SetDefaultHeaders(client, req'.header) = req'.header
        /\ SentRequest(client,
              [req' EXCEPT !.header = SetDefaultHeaders(client, req'.header)])
              = request']_vars

\* Do has run on a descriptor with two headers of the call, basic auth and a
\* token: its header map has the two headers and Do's two.
C38_Witness ==
    /\ request.state = "built"
    /\ DOMAIN req.header = {"X-Tenant", "X-Call", "Content-Type", "User-Agent"}
    /\ req.header["X-Call"] = <<"1">>
    /\ req.basicAuth.set
    /\ req.authToken # <<>>

====
